---- MODULE Spec2Model ----
(***************************************************************************)
(* Model of the Living Ideas backend (sebinkooooo/idea): the chat routes   *)
(* of chat/main.py, the completion gateway of chat/openai_helper.py and    *)
(* the stored records of models.py.                                        *)
(*                                                                         *)
(* Text is modelled as a sequence of tokens.  A token is a run of          *)
(* characters that the code never splits: a label of the output template,  *)
(* a newline, a word.  Python's None is the reserved one-token text None.  *)
(***************************************************************************)
EXTENDS Integers, Sequences, FiniteSets, TLC

\* ------------------------------------------------------------------ text
None == <<"<None>">>
NL == "\n"
SP == " "
Empty == <<>>

IsWs(t) == t \in {NL, SP}

\* Python truthiness of an Optional[str]: None and "" are falsy.
Truthy(s) == s # None /\ s # Empty

\* str.strip(): drop leading and trailing whitespace.
Strip(s) ==
    LET idx == {i \in 1..Len(s) : ~IsWs(s[i])}
    IN IF idx = {} THEN Empty
       ELSE LET lo == CHOOSE i \in idx : \A j \in idx : i <= j
                hi == CHOOSE i \in idx : \A j \in idx : i >= j
            IN SubSeq(s, lo, hi)

\* `sub in s` for two texts.
Contains(s, sub) ==
    \E i \in 0..(Len(s) - Len(sub)) : SubSeq(s, i + 1, i + Len(sub)) = sub

\* `tok in s` for a literal that is a single token.
HasTok(s, tok) == \E i \in 1..Len(s) : s[i] = tok

\* str.lower() on the tokens whose letter case the model distinguishes.
LowerTok(t) ==
    CASE t = "I Don't Know" -> "i don't know"
      [] t = "I DON'T KNOW" -> "i don't know"
      [] OTHER -> t

Lower(s) == [i \in 1..Len(s) |-> LowerTok(s[i])]

\* str.replace(tok, ''): every occurrence of the literal is removed.
RECURSIVE Replace(_, _)
Replace(s, tok) ==
    IF s = Empty THEN Empty
    ELSE IF Head(s) = tok THEN Replace(Tail(s), tok)
    ELSE <<Head(s)>> \o Replace(Tail(s), tok)

\* "\n".join(parts)
RECURSIVE JoinNL(_)
JoinNL(parts) ==
    IF parts = <<>> THEN Empty
    ELSE IF Len(parts) = 1 THEN parts[1]
    ELSE parts[1] \o <<NL>> \o JoinNL(Tail(parts))

\* `x or default` for an Optional[str].
OrElse(s, default) == IF Truthy(s) THEN s ELSE default

\* length of the whitespace run of s that starts at index i (greedy \s*)
WsRun(s, i) ==
    CHOOSE k \in 0..(Len(s) + 1) :
        /\ i + k <= Len(s) + 1
        /\ \A j \in i..(i + k - 1) : IsWs(s[j])
        /\ (i + k > Len(s) \/ ~IsWs(s[i + k]))

\* ------------------------------------------- SECTION_RE (chat/main.py:37)
L_ANSWER == "ANSWER:"
L_TITLE == "UPDATED_TITLE:"
L_PUB == "UPDATED_PUBLIC_MD:"
L_PRIV == "UPDATED_PRIVATE_MD:"

\* \s*$ from index i
MatchTail(s, i) == \A j \in i..Len(s) : IsWs(s[j])

\* A group  LABEL \s* (?P<g>.*?) \n  whose label is at index i.  Its ends are
\* the indices e of a newline after which the rest of the pattern matches.
\* Backtracking tries the greedy \s* longest first and, for each, the lazy
\* body shortest first: the body starts after the longest whitespace run
\* that still leaves an end, and stops at the first end from there.
Max(S) == CHOOSE x \in S : \A y \in S : x >= y
Min(S) == CHOOSE x \in S : \A y \in S : x <= y

BodyStart(s, i, ends) ==
    LET w == WsRun(s, i + 1)
        room == Max(ends) - i - 1
    IN i + 1 + (IF w <= room THEN w ELSE room)

BodyEnd(ends, b) == Min({e \in ends : e >= b})

NoMatch == [ok |-> FALSE, answer |-> None, title |-> None, pub |-> None, priv |-> None]

\* (?:UPDATED_PRIVATE_MD:\s*(?P<priv>.*))?\s*$
OkPriv(s, i) == (i <= Len(s) /\ s[i] = L_PRIV) \/ MatchTail(s, i)

MatchPriv(s, i) ==
    IF i <= Len(s) /\ s[i] = L_PRIV
    THEN [NoMatch EXCEPT !.ok = TRUE,
                         !.priv = SubSeq(s, i + 1 + WsRun(s, i + 1), Len(s))]
    ELSE IF MatchTail(s, i) THEN [NoMatch EXCEPT !.ok = TRUE]
    ELSE NoMatch

\* (?:UPDATED_PUBLIC_MD:\s*(?P<pub>.*?)\n)? followed by the rest
PubEnds(s, i) ==
    IF i <= Len(s) /\ s[i] = L_PUB
    THEN {e \in (i + 1)..Len(s) : s[e] = NL /\ OkPriv(s, e + 1)}
    ELSE {}

OkPub(s, i) == PubEnds(s, i) # {} \/ OkPriv(s, i)

MatchPub(s, i) ==
    IF PubEnds(s, i) # {}
    THEN LET b == BodyStart(s, i, PubEnds(s, i))
             e == BodyEnd(PubEnds(s, i), b)
         IN [MatchPriv(s, e + 1) EXCEPT !.pub = SubSeq(s, b, e - 1)]
    ELSE MatchPriv(s, i)

\* (?:UPDATED_TITLE:\s*(?P<title>.*?)\n)? followed by the rest
TitleEnds(s, i) ==
    IF i <= Len(s) /\ s[i] = L_TITLE
    THEN {e \in (i + 1)..Len(s) : s[e] = NL /\ OkPub(s, e + 1)}
    ELSE {}

OkTitle(s, i) == TitleEnds(s, i) # {} \/ OkPub(s, i)

MatchTitle(s, i) ==
    IF TitleEnds(s, i) # {}
    THEN LET b == BodyStart(s, i, TitleEnds(s, i))
             e == BodyEnd(TitleEnds(s, i), b)
         IN [MatchPub(s, e + 1) EXCEPT !.title = SubSeq(s, b, e - 1)]
    ELSE MatchPub(s, i)

\* SECTION_RE.match(s): ^\s*ANSWER:\s*(?P<answer>.*?)\n followed by the rest
AnswerEnds(s, i) ==
    IF i <= Len(s) /\ s[i] = L_ANSWER
    THEN {e \in (i + 1)..Len(s) : s[e] = NL /\ OkTitle(s, e + 1)}
    ELSE {}

\* a pattern whose ANSWER: group is optional like the other three
SECTION_RE_OptionalHeader(s) ==
    LET i == WsRun(s, 1) + 1
    IN IF AnswerEnds(s, i) # {}
       THEN LET b == BodyStart(s, i, AnswerEnds(s, i))
                e == BodyEnd(AnswerEnds(s, i), b)
            IN [MatchTitle(s, e + 1) EXCEPT !.answer = SubSeq(s, b, e - 1)]
       ELSE MatchTitle(s, i)

SECTION_RE(s) ==
    LET i == WsRun(s, 1) + 1
    IN IF AnswerEnds(s, i) # {}
       THEN LET b == BodyStart(s, i, AnswerEnds(s, i))
                e == BodyEnd(AnswerEnds(s, i), b)
            IN [MatchTitle(s, e + 1) EXCEPT !.answer = SubSeq(s, b, e - 1)]
       ELSE NoMatch

\* (m.group(g) or "").strip() or None
GroupOrNone(g) ==
    LET t == Strip(IF g = None THEN Empty ELSE g)
    IN IF t = Empty THEN None ELSE t

parse_structured_answer(raw) ==
    LET m == SECTION_RE(Strip(raw))
    IN IF ~m.ok
       THEN [answer |-> Strip(raw), title |-> None, pub |-> None, priv |-> None]
       ELSE [answer |-> Strip(IF m.answer = None THEN Empty ELSE m.answer),
             title |-> GroupOrNone(m.title),
             pub |-> GroupOrNone(m.pub),
             priv |-> GroupOrNone(m.priv)]

\* ------------------------------- parse_markdown_update (chat/main.py:69)
B_PUB_START == "### PUBLIC_MD_START"
B_PUB_END == "### PUBLIC_MD_END"
B_PRIV_START == "### PRIVATE_MD_START"
B_PRIV_END == "### PRIVATE_MD_END"

\* re.search(START \s*\n(.*?)\n END, raw, DOTALL): the leftmost START that can
\* be completed; there the greedy \s* longest first, the lazy body shortest
\* first.  After START at i come k whitespace tokens, a newline at i+k+1, the
\* body, and a newline at e followed by END.
BlockEnds(s, end) == {e \in 1..(Len(s) - 1) : s[e] = NL /\ s[e + 1] = end}

\* the indices of the newline that closes START's line, for START at i
BlockOpens(s, i, end) ==
    {o \in (i + 1)..(i + 1 + WsRun(s, i + 1)) :
        /\ o <= Len(s) /\ s[o] = NL
        /\ \E e \in BlockEnds(s, end) : e > o}

BlockSearch(s, start, end) ==
    LET starts == {i \in 1..Len(s) : s[i] = start /\ BlockOpens(s, i, end) # {}}
    IN IF starts = {} THEN [ok |-> FALSE, body |-> Empty]
       ELSE LET o == Max(BlockOpens(s, Min(starts), end))
                e == Min({e \in BlockEnds(s, end) : e > o})
            IN [ok |-> TRUE, body |-> SubSeq(s, o + 1, e - 1)]

\* raw.split('\n')
RECURSIVE SplitNL(_)
SplitNL(s) ==
    LET idx == {i \in 1..Len(s) : s[i] = NL}
    IN IF idx = {} THEN <<s>>
       ELSE LET i == CHOOSE i \in idx : \A j \in idx : i <= j
            IN <<SubSeq(s, 1, i - 1)>> \o SplitNL(SubSeq(s, i + 1, Len(s)))

\* the words of the line scan, as substrings of the lower-cased tokens
WordsOf(t) ==
    CASE t = B_PUB_START -> {"public", "md", "start"}
      [] t = B_PUB_END -> {"public", "md", "end"}
      [] t = B_PRIV_START -> {"private", "md", "start"}
      [] t = B_PRIV_END -> {"private", "md", "end"}
      [] t = L_PUB -> {"public", "md"}
      [] t = L_PRIV -> {"private", "md"}
      [] t = "PUBLIC:" -> {"public"}
      [] t = "PRIVATE:" -> {"private"}
      [] t = "START" -> {"start"}
      [] t = "END" -> {"end"}
      [] OTHER -> {}

LineWords(line) == UNION {WordsOf(line[i]) : i \in 1..Len(line)}

\* the for loop of the fallback: state is <<current_section, public, private>>
RECURSIVE ScanLines(_, _, _, _)
ScanLines(lines, section, pub, priv) ==
    IF lines = <<>> THEN [pub |-> pub, priv |-> priv]
    ELSE LET line == Head(lines)
             w == LineWords(line)
             rest == Tail(lines)
         IN IF "public" \in w /\ ("start" \in w \/ "md" \in w)
            THEN ScanLines(rest, "public", pub, priv)
            ELSE IF "private" \in w /\ ("start" \in w \/ "md" \in w)
            THEN ScanLines(rest, "private", pub, priv)
            ELSE IF "end" \in w /\ section # "none"
            THEN ScanLines(rest, "none", pub, priv)
            ELSE IF section = "public"
            THEN ScanLines(rest, section, Append(pub, line), priv)
            ELSE IF section = "private"
            THEN ScanLines(rest, section, pub, Append(priv, line))
            ELSE ScanLines(rest, section, pub, priv)

parse_markdown_update(raw) ==
    LET pub_match == BlockSearch(raw, B_PUB_START, B_PUB_END)
        priv_match == BlockSearch(raw, B_PRIV_START, B_PRIV_END)
        scan == ScanLines(SplitNL(raw), "none", <<>>, <<>>)
    IN IF pub_match.ok /\ priv_match.ok
       THEN [public_md |-> Strip(pub_match.body), private_md |-> Strip(priv_match.body)]
       ELSE IF scan.pub # <<>> \/ scan.priv # <<>>
       THEN [public_md |-> Strip(JoinNL(scan.pub)), private_md |-> Strip(JoinNL(scan.priv))]
       ELSE [public_md |-> Strip(raw), private_md |-> Empty]

\* ------------------------------------- ask_openai (chat/openai_helper.py)
UNAVAILABLE == "[Chat unavailable]"
CHAT_ERROR == "[Chat error"
APOLOGY == <<"Sorry, chat is unavailable right now.">>

\* cl: whether OPENAI_API_KEY was set; outcome: what the backend call does.
\* The prompt (context, question) does not decide the result: the backend
\* is free to answer anything.
\* f"[Chat error: {e}]"
ChatError(e) == <<CHAT_ERROR, ": ", e, "]">>

\* what a caller would see if an exception left ask_openai
RAISED == <<"<raised>">>

\* a gateway whose try block ends before the response is read
ask_openai_Uncaught(cl, outcome) ==
    IF ~cl THEN <<UNAVAILABLE>>
    ELSE IF outcome.kind = "raise" THEN ChatError("boom")
    ELSE IF outcome.kind = "none" THEN RAISED
    ELSE Strip(outcome.text)

\* outcome.kind: "ok", the backend answered outcome.text; "raise", the call
\* raised; "none", the response carries no text and .strip() raises
ask_openai(cl, outcome) ==
    IF ~cl THEN <<UNAVAILABLE>>
    ELSE IF outcome.kind = "raise" THEN ChatError("boom")
    ELSE IF outcome.kind = "none"
    THEN ChatError("'NoneType' object has no attribute 'strip'")
    ELSE Strip(outcome.text)

\* client.chat.completions.create calls made by one ask_openai
BackendCalls(cl, outcome) == IF cl THEN 1 ELSE 0

\* a sentinel test that forgets the error marker
IsSentinel_UnavailableOnly(raw) == HasTok(raw, UNAVAILABLE)

\* "[Chat unavailable]" in raw or "[Chat error" in raw
IsSentinel(raw) == HasTok(raw, UNAVAILABLE) \/ HasTok(raw, CHAT_ERROR)

\* ---------------------------------------------------------------- bounds
\* requests received, per behaviour
MaxRequests == 2

\* ---------------------------------------------------------------- domains
Procs == {"p1", "p2"}
Users == {"u1", "u2"}
IdeaRefs == {"i1", "i2", "i9"}
ShareRefs == {"s1", "s2", "s9"}
Questions == {<<"q1">>}
Answers == {<<"a1">>}
Passwords == {None, Empty, <<"pw">>, <<"bad">>}

\* what the backend returns for one call (before ask_openai strips it):
\* to a chat prompt, the labeled template or free text
ChatCompletions ==
    { <<L_ANSWER, NL, "ok", NL, L_TITLE, NL, "T1", NL, L_PUB, NL, "P1", NL, L_PRIV, NL, "R1", NL>>,
      <<L_ANSWER, NL, "Done.", NL, L_TITLE, NL, "T0", NL, L_PUB, NL, NL, L_PRIV, NL>>,
      <<"I Don't Know", NL>> }

\* to the refinement prompt, the delimiter blocks or free text
RefineCompletions ==
    { <<B_PUB_START, NL, "P2", NL, B_PUB_END, NL, B_PRIV_START, NL, "R2", NL, B_PRIV_END>>,
      <<"I Don't Know", NL>> }

Raise == [kind |-> "raise", text |-> Empty]

ChatOutcomes == {Raise} \cup {[kind |-> "ok", text |-> c] : c \in ChatCompletions}

RefineOutcomes == {Raise} \cup {[kind |-> "ok", text |-> c] : c \in RefineCompletions}

\* hashlib.sha256(pw.encode()).hexdigest(): injective on the model's passwords
hash_password(pw) == <<"sha256:">> \o pw

check_password(pw, hash_val) == hash_password(pw) = hash_val

\* every text ask_openai can return in the model, and the two parsers on it
RawTexts == {ask_openai(cl, o) : cl \in BOOLEAN, o \in ChatOutcomes \cup RefineOutcomes}

Structured == [raw \in RawTexts |-> parse_structured_answer(raw)]

MarkdownUpdate == [raw \in RawTexts |-> parse_markdown_update(raw)]

\* ------------------------------------------------------------------ state
VARIABLES
    client,      \* openai_helper.client is not None
    ideas,       \* table ideas: id -> row
    repo,        \* table repo_items, in insertion order
    qa_history,  \* table qa_history, in insertion order
    unanswered,  \* table unanswered_questions, in insertion order
    assets,      \* table assets, in insertion order
    req,         \* per request slot: the handler's position and its locals
    last,        \* the response of the request that ended last
    now,         \* datetime.utcnow(), a logical clock
    nextId,      \* source of fresh primary keys (uuid4)
    nreq,        \* requests received so far
    resolved,    \* history: keys of the questions a resolution was committed for
    probe        \* one call of a pure function: its arguments and its result

vars == <<client, ideas, repo, qa_history, unanswered, assets, req, last, now, nextId, nreq,
          resolved, probe>>
store == <<ideas, repo, qa_history, unanswered, assets>>

IdleReq ==
    [pc |-> "idle", user |-> "-", idea_id |-> "-", question |-> Empty,
     answer |-> Empty, context |-> Empty, uq_id |-> 0, created_at |-> 0, password |-> None,
     title |-> None, public_md |-> None, private_md |-> None]

\* no pure function has been called
NoProbe == [fn |-> "-", arg |-> <<>>, result |-> <<>>]

\* the response of a request, with what identifies the request and the text
\* its gateway call returned (None when the gateway was not called)
NoResponse ==
    [proc |-> "-", route |-> "-", status |-> 0, user |-> "-", idea_id |-> "-",
     raw |-> None, answer |-> Empty,
     updated_title |-> None, updated_public_md |-> None, updated_private_md |-> None,
     uq_id |-> 0, body |-> <<>>, password |-> None]

Response(p, route, status, user, id) ==
    [NoResponse EXCEPT !.proc = p, !.route = route, !.status = status,
                       !.user = user, !.idea_id = id]

\* Idea.parent_id of an idea that is no clone (NULL)
NoParent == "-"

\* models.Idea as create_idea stores it, for a backend that answered
NewIdea(user, n, visibility, password) ==
    [user_id |-> user, title |-> <<"T0">>, public_md |-> <<"pub" \o n>>,
     private_md |-> <<"priv" \o n>>, visibility |-> visibility,
     password_hash |-> IF visibility = "password" THEN hash_password(password) ELSE None,
     share_hash |-> "s" \o n, clonable |-> TRUE, parent_id |-> NoParent]

\* The state after u1 and u2 have each created one idea (create_idea with a
\* backend that answered: the raw submission is kept as a private repo item
\* and one clarifying question is seeded) and u1 has attached two assets.
Init ==
    /\ client \in BOOLEAN
    /\ \E v \in {"public", "private", "password"} :
          ideas = [i \in {"i1", "i2"} |->
                     IF i = "i1" THEN NewIdea("u1", "1", v, <<"pw">>)
                     ELSE NewIdea("u2", "2", "public", None)]
    /\ repo = << [id |-> 1, idea_id |-> "i1", name |-> <<"Raw Submission">>,
                  type |-> "raw_submission", content |-> <<"raw1">>, visibility |-> "private"],
                 [id |-> 2, idea_id |-> "i2", name |-> <<"Raw Submission">>,
                  type |-> "raw_submission", content |-> <<"raw2">>, visibility |-> "private"] >>
    /\ qa_history = <<>>
    /\ unanswered = << [id |-> 3, idea_id |-> "i1", question |-> <<"cq1">>, created_at |-> 1] >>
    /\ assets = << [id |-> 4, idea_id |-> "i1", title |-> "asset1", url |-> "url1", visibility |-> "public"],
                   [id |-> 5, idea_id |-> "i1", title |-> "asset2", url |-> "url2", visibility |-> "private"] >>
    /\ req = [p \in Procs |-> IdleReq]
    /\ last = NoResponse
    /\ now = 2
    /\ nextId = 6
    /\ nreq = 0
    /\ resolved = {}
    /\ probe = NoProbe

\* the question keys a request can name: of the questions stored, of those
\* resolved before, and one that was never issued
UqRefs == {unanswered[i].id : i \in 1..Len(unanswered)} \cup resolved \cup {0}

\* the repo item keys a request can name: of the items stored, and one that
\* was never issued
QaRefs == {repo[i].id : i \in 1..Len(repo)} \cup {0}

\* ------------------------------------------------------------ the queries
\* the rows of a table that belong to one of the ideas ids, in order
RECURSIVE SelectRows(_, _)
SelectRows(seq, ids) ==
    IF seq = <<>> THEN <<>>
    ELSE IF Head(seq).idea_id \in ids THEN <<Head(seq)>> \o SelectRows(Tail(seq), ids)
    ELSE SelectRows(Tail(seq), ids)

\* rows of a set of history rows in ascending created_at order
RECURSIVE Ascending(_)
Ascending(rows) ==
    IF rows = {} THEN <<>>
    ELSE LET r == CHOOSE r \in rows : \A o \in rows : r.created_at <= o.created_at
         IN <<r>> \o Ascending(rows \ {r})

\* a query ordered by created_at ascending: the k oldest rows of the idea
RecentHistory_Oldest(id, k) ==
    LET mine == {i \in 1..Len(qa_history) : qa_history[i].idea_id = id}
        oldest == {i \in mine :
                     Cardinality({j \in mine :
                        \/ qa_history[j].created_at < qa_history[i].created_at
                        \/ (qa_history[j].created_at = qa_history[i].created_at /\ j < i)}) < k}
    IN Ascending({qa_history[i] : i \in oldest})

\* query(QAHistory).filter(idea_id == id).order_by(created_at.desc()).limit(k)
\* and then reversed(...): the k newest rows of the idea, oldest first
RecentHistory(id, k) ==
    LET mine == {i \in 1..Len(qa_history) : qa_history[i].idea_id = id}
        newest == {i \in mine :
                     Cardinality({j \in mine :
                        \/ qa_history[j].created_at > qa_history[i].created_at
                        \/ (qa_history[j].created_at = qa_history[i].created_at /\ j > i)}) < k}
    IN Ascending({qa_history[i] : i \in newest})

\* "\n".join(f"Q: {h.question}\nA: {h.answer}" for h in reversed(history))
HistoryText(rows) ==
    JoinNL([i \in 1..Len(rows) |->
              <<"Q: ">> \o rows[i].question \o <<NL, "A: ">> \o rows[i].answer])

\* the persistent-QA lines of idea.repo for the given visibilities
QAItemsText(id, visibilities) ==
    LET rows == SelectRows(repo, {id})
        idx == {i \in 1..Len(rows) : rows[i].type = "qa" /\ rows[i].visibility \in visibilities}
        RECURSIVE Pick(_)
        Pick(i) ==
            IF i > Len(rows) THEN <<>>
            ELSE IF i \in idx
            THEN << <<"Q: ">> \o Replace(rows[i].name, "Q: ") \o <<NL, "A: ">>
                    \o Replace(rows[i].content, "A: ") >> \o Pick(i + 1)
            ELSE Pick(i + 1)
    IN JoinNL(Pick(1))

\* "\n".join(f"- {a.title}: {a.url}" for a in idea.assets if a.visibility == "public")
AssetsText(id) ==
    LET rows == SelectRows(assets, {id})
        RECURSIVE PickAsset(_)
        PickAsset(i) ==
            IF i > Len(rows) THEN <<>>
            ELSE IF rows[i].visibility = "public"
            THEN << <<"- ", rows[i].title, ": ", rows[i].url>> >> \o PickAsset(i + 1)
            ELSE PickAsset(i + 1)
    IN JoinNL(PickAsset(1))

\* share_hash is unique: the idea with that share hash, or "-"
IdeaByShare(h) ==
    IF \E i \in DOMAIN ideas : ideas[i].share_hash = h
    THEN CHOOSE i \in DOMAIN ideas : ideas[i].share_hash = h
    ELSE "-"

\* ------------------------------------------------------- prompt contexts
\* the f-string of ask_idea (chat/main.py:171), .strip()ped
OwnerContext(idea, id) ==
    Strip(<<NL, "You are the *living document*", NL, "# CURRENT PUBLIC MARKDOWN", NL>>
          \o OrElse(idea.public_md, Empty)
          \o <<NL, NL, "# CURRENT PRIVATE MARKDOWN", NL>>
          \o OrElse(idea.private_md, Empty)
          \o <<NL, NL, "# PERSISTENT QA", NL>>
          \o QAItemsText(id, {"public", "private"})
          \o <<NL, NL, "# RECENT Q&A HISTORY", NL>>
          \o HistoryText(RecentHistory(id, 5))
          \o <<NL, NL, "# PUBLIC ASSETS", NL>>
          \o AssetsText(id)
          \o <<NL>>)

\* the f-string of ask_shared_idea (chat/main.py:319), .strip()ped
SharedContext(idea, id) ==
    Strip(<<NL, "You are the *public-facing* living document", NL, "# CURRENT PUBLIC MARKDOWN", NL>>
          \o OrElse(idea.public_md, Empty)
          \o <<NL, NL, "# PUBLIC PERSISTENT QA", NL>>
          \o QAItemsText(id, {"public"})
          \o <<NL, NL, "# RECENT PUBLIC Q&A (short)", NL>>
          \o HistoryText(RecentHistory(id, 3))
          \o <<NL, NL, "# PUBLIC ASSETS", NL>>
          \o AssetsText(id)
          \o <<NL>>)

\* refine_prompt of answer_unanswered (chat/main.py:437)
RefinePrompt(idea, question, answer) ==
    <<NL, "Based on this Q&A clarification", NL, "Current Public Content:", NL>>
    \o OrElse(idea.public_md, <<"No public content yet.">>)
    \o <<NL, NL, "Current Private Content:", NL>>
    \o OrElse(idea.private_md, <<"No private content yet.">>)
    \o <<NL, NL, "New Q&A to incorporate:", NL, "Q: ">> \o question
    \o <<NL, "A: ">> \o answer \o <<NL>>

\* ------------------------------------------------------------ the session
\* What session.commit() writes for a loaded Idea: an UPDATE of the columns
\* whose value differs from the value the session loaded; the other columns
\* keep what is stored.
FlushIdea(stored, loaded, title, public_md, private_md) ==
    [stored EXCEPT
        !.title = IF title # loaded.title THEN title ELSE @,
        !.public_md = IF public_md # loaded.public_md THEN public_md ELSE @,
        !.private_md = IF private_md # loaded.private_md THEN private_md ELSE @]

Busy(p) == req[p].pc # "idle"

\* a request slot is taken in order: p2 only while p1 is in flight
CanBegin(p) ==
    /\ ~Busy(p)
    /\ nreq < MaxRequests
    /\ (p = "p2" => Busy("p1"))

\* the handler's locals after it has loaded the idea
Loaded(pc, user, id, question) ==
    [IdleReq EXCEPT !.pc = pc, !.user = user, !.idea_id = id, !.question = question,
                    !.title = ideas[id].title, !.public_md = ideas[id].public_md,
                    !.private_md = ideas[id].private_md]

Reject(p, route, status, user, id) ==
    /\ last' = Response(p, route, status, user, id)
    /\ nreq' = nreq + 1
    /\ UNCHANGED <<client, probe, resolved, store, req, now, nextId>>

\* -------------------------------------------------------------- ask_idea
\* chat/main.py:145-212: load the idea and compose the owner context
AskIdeaBegin(p, id, user, question) ==
    /\ CanBegin(p)
    /\ IF id \notin DOMAIN ideas
       THEN Reject(p, "ask_idea", 404, user, id)
       ELSE /\ req' = [req EXCEPT ![p] =
                         [Loaded("ask_idea", user, id, question) EXCEPT
                             !.context = OwnerContext(ideas[id], id)]]
            /\ nreq' = nreq + 1
            /\ UNCHANGED <<client, probe, resolved, store, last, now, nextId>>

\* the UnansweredQuestion row both chat routes add
NewUnanswered(id, question) ==
    [id |-> nextId, idea_id |-> id, question |-> question, created_at |-> now]

\* an owner branch in which a missing proposal clears the field
ApplyProposal_Clearing(loaded, parsed) ==
    [title |-> IF Truthy(parsed.title) /\ Truthy(Strip(parsed.title))
                  /\ Strip(parsed.title) # loaded.title
               THEN Strip(parsed.title) ELSE loaded.title,
     public_md |-> IF Truthy(parsed.pub) THEN parsed.pub ELSE Empty,
     private_md |-> IF Truthy(parsed.priv) THEN parsed.priv ELSE Empty]

\* idea.title / public_md / private_md after the owner branch
\* (chat/main.py:243-253), given the values the session loaded
ApplyProposal(loaded, parsed) ==
    [title |-> IF Truthy(parsed.title) /\ Truthy(Strip(parsed.title))
                  /\ Strip(parsed.title) # loaded.title
               THEN Strip(parsed.title) ELSE loaded.title,
     public_md |-> IF Truthy(parsed.pub) THEN parsed.pub ELSE loaded.public_md,
     private_md |-> IF Truthy(parsed.priv) THEN parsed.priv ELSE loaded.private_md]

\* a commit that persists the proposed edits whoever the caller is
AskIdeaCommit_AnyCaller(p, parsed, answer) ==
    LET r == req[p]
        id == r.idea_id
        idk == HasTok(Lower(answer), "i don't know")
        pending == ApplyProposal(r, parsed)
    IN /\ qa_history' = Append(qa_history,
             [idea_id |-> id, question |-> r.question, answer |-> answer, created_at |-> now])
       /\ unanswered' = IF idk THEN Append(unanswered, NewUnanswered(id, r.question))
                        ELSE unanswered
       /\ nextId' = IF idk THEN nextId + 1 ELSE nextId
       /\ ideas' = [ideas EXCEPT ![id] =
             FlushIdea(@, r, pending.title, pending.public_md, pending.private_md)]
       /\ UNCHANGED <<repo, assets>>

\* a commit of the edits that leaves the history row behind
AskIdeaCommit_HistoryLost(p, parsed, answer) ==
    LET r == req[p]
        id == r.idea_id
        idk == HasTok(Lower(answer), "i don't know")
        pending == IF r.user = ideas[id].user_id
                   THEN ApplyProposal(r, parsed)
                   ELSE [title |-> r.title, public_md |-> r.public_md,
                         private_md |-> r.private_md]
        changed == <<pending.title, pending.public_md, pending.private_md>>
                   # <<r.title, r.public_md, r.private_md>>
    IN /\ qa_history' = IF changed THEN qa_history
                        ELSE Append(qa_history,
                               [idea_id |-> id, question |-> r.question,
                                answer |-> answer, created_at |-> now])
       /\ unanswered' = IF idk THEN Append(unanswered, NewUnanswered(id, r.question))
                        ELSE unanswered
       /\ nextId' = IF idk THEN nextId + 1 ELSE nextId
       /\ ideas' = [ideas EXCEPT ![id] =
             FlushIdea(@, r, pending.title, pending.public_md, pending.private_md)]
       /\ UNCHANGED <<repo, assets>>

\* what the commit of ask_idea's normal path writes (chat/main.py:230-259)
AskIdeaCommit(p, parsed, answer) ==
    LET r == req[p]
        id == r.idea_id
        idk == HasTok(Lower(answer), "i don't know")
        pending == IF r.user = ideas[id].user_id
                   THEN ApplyProposal(r, parsed)
                   ELSE [title |-> r.title, public_md |-> r.public_md,
                         private_md |-> r.private_md]
    IN /\ qa_history' = Append(qa_history,
             [idea_id |-> id, question |-> r.question, answer |-> answer, created_at |-> now])
       /\ unanswered' = IF idk THEN Append(unanswered, NewUnanswered(id, r.question))
                        ELSE unanswered
       /\ nextId' = IF idk THEN nextId + 1 ELSE nextId
       /\ ideas' = [ideas EXCEPT ![id] =
             FlushIdea(@, r, pending.title, pending.public_md, pending.private_md)]
       /\ UNCHANGED <<repo, assets>>

\* chat/main.py:214-268: the gateway answers and the handler finishes
AskIdeaFinish(p, outcome) ==
    /\ req[p].pc = "ask_idea"
    /\ LET raw == ask_openai(client, outcome)
           parsed == Structured[raw]
           answer == OrElse(parsed.answer, <<"OK.">>)
       IN IF IsSentinel(raw)
          THEN /\ unanswered' = Append(unanswered, NewUnanswered(req[p].idea_id, req[p].question))
               /\ nextId' = nextId + 1
               /\ last' = [Response(p, "ask_idea", 200, req[p].user, req[p].idea_id) EXCEPT
                              !.raw = raw, !.answer = APOLOGY]
               /\ UNCHANGED <<ideas, repo, qa_history, assets>>
          ELSE /\ AskIdeaCommit(p, parsed, answer)
               /\ last' = [Response(p, "ask_idea", 200, req[p].user, req[p].idea_id) EXCEPT
                              !.raw = raw, !.answer = answer,
                              !.updated_title = parsed.title,
                              !.updated_public_md = parsed.pub,
                              !.updated_private_md = parsed.priv]
    /\ now' = now + 1
    /\ req' = [req EXCEPT ![p] = IdleReq]
    /\ UNCHANGED <<client, probe, resolved, nreq>>

\* ------------------------------------------------------- ask_shared_idea
\* a gate that accepts any non-empty password
SharedGate_AnyPassword(idea, password) ==
    IF idea.visibility = "private" THEN 403
    ELSE IF idea.visibility = "password" /\ ~Truthy(password) THEN 403
    ELSE 0

\* the visibility and password checks of chat/main.py:290-296;
\* the HTTP status the gate raises, 0 when the request may go on
SharedGate(idea, password) ==
    IF idea.visibility = "private" THEN 403
    ELSE IF idea.visibility = "password"
            /\ (~Truthy(password) \/ ~check_password(password, idea.password_hash))
    THEN 403
    ELSE 0

\* chat/main.py:286-354: look the idea up, gate, compose the shared context
AskSharedBegin(p, share_hash, password, question) ==
    /\ CanBegin(p)
    /\ LET id == IdeaByShare(share_hash)
       IN IF id = "-"
          THEN Reject(p, "ask_shared_idea", 404, "anon", id)
          ELSE IF SharedGate(ideas[id], password) # 0
          THEN Reject(p, "ask_shared_idea", SharedGate(ideas[id], password), "anon", id)
          ELSE /\ req' = [req EXCEPT ![p] =
                            [Loaded("ask_shared_idea", "anon", id, question) EXCEPT
                                !.password = password,
                                !.context = SharedContext(ideas[id], id)]]
               /\ nreq' = nreq + 1
               /\ UNCHANGED <<client, probe, resolved, store, last, now, nextId>>

\* chat/main.py:356-378: the gateway answers and the handler finishes
AskSharedFinish(p, outcome) ==
    /\ req[p].pc = "ask_shared_idea"
    /\ LET raw == ask_openai(client, outcome)
           parsed == Structured[raw]
           answer == OrElse(parsed.answer, <<"OK.">>)
       IN IF IsSentinel(raw)
          THEN /\ last' = [Response(p, "ask_shared_idea", 200, "anon", req[p].idea_id) EXCEPT
                              !.raw = raw, !.answer = APOLOGY]
               /\ UNCHANGED <<store, now>>
          ELSE /\ qa_history' = Append(qa_history,
                     [idea_id |-> req[p].idea_id, question |-> req[p].question,
                      answer |-> answer, created_at |-> now])
               /\ now' = now + 1
               /\ last' = [Response(p, "ask_shared_idea", 200, "anon", req[p].idea_id) EXCEPT
                              !.raw = raw, !.answer = answer,
                              !.updated_public_md = parsed.pub]
               /\ UNCHANGED <<ideas, repo, unanswered, assets>>
    /\ req' = [req EXCEPT ![p] = IdleReq]
    /\ UNCHANGED <<client, probe, resolved, nextId, nreq>>

\* ----------------------------------------------------- answer_unanswered
\* session.query(UnansweredQuestion).get(uq_id): the row, if it is stored
HasUnanswered(uq_id) == \E i \in 1..Len(unanswered) : unanswered[i].id = uq_id

GetUnanswered(uq_id) ==
    unanswered[CHOOSE i \in 1..Len(unanswered) : unanswered[i].id = uq_id]

\* an HTTPException of answer_unanswered (chat/main.py:409-415)
RejectAnswer(p, status, user, id, uq_id) ==
    /\ last' = [Response(p, "answer_unanswered", status, user, id) EXCEPT !.uq_id = uq_id]
    /\ nreq' = nreq + 1
    /\ UNCHANGED <<client, probe, resolved, store, req, now, nextId>>

\* chat/main.py:407-460: checks, the pending QAHistory and RepoItem, the prompt
AnswerUnansweredBegin(p, id, uq_id, user, answer) ==
    /\ CanBegin(p)
    /\ IF id \notin DOMAIN ideas
       THEN RejectAnswer(p, 404, user, id, uq_id)
       ELSE IF ideas[id].user_id # user
       THEN RejectAnswer(p, 403, user, id, uq_id)
       ELSE IF ~HasUnanswered(uq_id) \/ GetUnanswered(uq_id).idea_id # id
       THEN RejectAnswer(p, 404, user, id, uq_id)
       ELSE LET uq == GetUnanswered(uq_id)
            IN /\ req' = [req EXCEPT ![p] =
                            [Loaded("answer_unanswered", user, id, uq.question) EXCEPT
                                !.answer = answer, !.uq_id = uq_id, !.created_at = now,
                                !.context = RefinePrompt(ideas[id], uq.question, answer)]]
               /\ now' = now + 1
               /\ nreq' = nreq + 1
               /\ UNCHANGED <<client, probe, resolved, store, last, nextId>>

\* a resolution that files the pair as public
QARepoItem_Public(id, question, answer) ==
    [id |-> nextId, idea_id |-> id, name |-> <<"Q: ">> \o question, type |-> "qa",
     content |-> <<"A: ">> \o answer, visibility |-> "public"]

\* the RepoItem of chat/main.py:423-429
QARepoItem(id, question, answer) ==
    [id |-> nextId, idea_id |-> id, name |-> <<"Q: ">> \o question, type |-> "qa",
     content |-> <<"A: ">> \o answer, visibility |-> "private"]

\* a resolution that leaves the question in the table
DeleteUnanswered_Kept(uq_id) == unanswered

\* session.delete(uq): the row with that key is removed, if it is still there
DeleteUnanswered(uq_id) ==
    LET RECURSIVE Drop(_)
        Drop(seq) ==
            IF seq = <<>> THEN <<>>
            ELSE IF Head(seq).id = uq_id THEN Drop(Tail(seq))
            ELSE <<Head(seq)>> \o Drop(Tail(seq))
    IN Drop(unanswered)

\* idea.public_md / private_md after chat/main.py:468-471
ApplyRegeneration(loaded, parsed_content) ==
    [public_md |-> IF Truthy(parsed_content.public_md)
                   THEN parsed_content.public_md ELSE loaded.public_md,
     private_md |-> IF Truthy(parsed_content.private_md)
                    THEN parsed_content.private_md ELSE loaded.private_md]

\* chat/main.py:462-482: the gateway answers, the markdown is regenerated,
\* the question is deleted and everything is committed
AnswerUnansweredFinish(p, outcome) ==
    /\ req[p].pc = "answer_unanswered"
    /\ LET r == req[p]
           raw == ask_openai(client, outcome)
           pending == ApplyRegeneration(r, MarkdownUpdate[raw])
       IN /\ qa_history' = Append(qa_history,
                [idea_id |-> r.idea_id, question |-> r.question, answer |-> r.answer,
                 created_at |-> r.created_at])
          /\ repo' = Append(repo, QARepoItem(r.idea_id, r.question, r.answer))
          /\ ideas' = [ideas EXCEPT ![r.idea_id] =
                FlushIdea(@, r, r.title, pending.public_md, pending.private_md)]
          /\ unanswered' = DeleteUnanswered(r.uq_id)
          /\ last' = [Response(p, "answer_unanswered", 200, r.user, r.idea_id) EXCEPT
                         !.raw = raw, !.answer = r.answer, !.uq_id = r.uq_id]
    /\ resolved' = resolved \cup {req[p].uq_id}
    /\ nextId' = nextId + 1
    /\ req' = [req EXCEPT ![p] = IdleReq]
    /\ UNCHANGED <<client, probe, assets, now, nreq>>

\* -------------------------------------------------------- specifications
\* the operations of one request slot
Handle(p) ==
    \/ \E id \in IdeaRefs, user \in Users, question \in Questions :
          AskIdeaBegin(p, id, user, question)
    \/ \E outcome \in ChatOutcomes : AskIdeaFinish(p, outcome)
    \/ \E share_hash \in ShareRefs, password \in Passwords, question \in Questions :
          AskSharedBegin(p, share_hash, password, question)
    \/ \E outcome \in ChatOutcomes : AskSharedFinish(p, outcome)
    \/ \E id \in IdeaRefs, uq_id \in UqRefs, user \in Users, answer \in Answers :
          AnswerUnansweredBegin(p, id, uq_id, user, answer)
    \/ \E outcome \in RefineOutcomes : AnswerUnansweredFinish(p, outcome)

\* requests handled one at a time
Next == Handle("p1")

Spec == Init /\ [][Next]_vars

\* requests handled concurrently: a handler blocks in its gateway call while
\* another request runs
NextConc == \E p \in Procs : Handle(p)

SpecConc == Init /\ [][NextConc]_vars

\* ------------------------------------------- idea, share and asset routes
\* a handler that runs from its first line to its response in one step
Respond(p, resp) ==
    /\ last' = resp
    /\ nreq' = nreq + 1
    /\ UNCHANGED <<client, probe, resolved, req>>

\* the response with its JSON body
WithBody(p, route, user, id, body) ==
    [Response(p, route, 200, user, id) EXCEPT !.body = body]

\* IdeaResponse.model_validate(idea, from_attributes=True)
IdeaResponse(id, idea) ==
    [id |-> id, user_id |-> idea.user_id, title |-> idea.title,
     public_md |-> idea.public_md, private_md |-> idea.private_md,
     visibility |-> idea.visibility, parent_id |-> idea.parent_id,
     clonable |-> idea.clonable, share_hash |-> idea.share_hash]

\* an owner check that only looks the idea up
OwnerCheck_ExistsOnly(id, user) ==
    IF id \notin DOMAIN ideas THEN 404 ELSE 0

\* the two checks every owner-only route starts with (e.g.
\* ideas/main.py:278-282): the status raised, 0 when the request may go on
OwnerCheck(id, user) ==
    IF id \notin DOMAIN ideas THEN 404
    ELSE IF ideas[id].user_id # user THEN 403
    ELSE 0

\* the checks of get_idea (ideas/main.py:250-260)
ReadGate(id, user, password) ==
    IF id \notin DOMAIN ideas THEN 404
    ELSE IF ideas[id].visibility = "private" /\ ideas[id].user_id # user THEN 403
    ELSE IF /\ ideas[id].visibility = "password" /\ ideas[id].user_id # user
            /\ (~Truthy(password) \/ ~check_password(password, ideas[id].password_hash))
    THEN 403
    ELSE 0

\* GET /ideas/{idea_id}
get_idea(p, id, user, password) ==
    /\ CanBegin(p)
    /\ LET status == ReadGate(id, user, password)
       IN Respond(p, [IF status # 0 THEN Response(p, "get_idea", status, user, id)
                      ELSE WithBody(p, "get_idea", user, id, IdeaResponse(id, ideas[id]))
                        EXCEPT !.password = password])
    /\ UNCHANGED <<store, now, nextId>>

\* GET /share/{share_hash} (share/main.py:11-36); no caller identity
get_shared_idea(p, share_hash, password) ==
    /\ CanBegin(p)
    /\ LET id == IdeaByShare(share_hash)
           status == IF id = "-" THEN 404 ELSE SharedGate(ideas[id], password)
       IN Respond(p, [IF status # 0 THEN Response(p, "get_shared_idea", status, "anon", id)
                      ELSE WithBody(p, "get_shared_idea", "anon", id,
                                    IdeaResponse(id, ideas[id]))
                        EXCEPT !.password = password])
    /\ UNCHANGED <<store, now, nextId>>

\* GET /assets/ideas/{idea_id}/assets (assets/main.py:57-63); no caller identity
list_assets(p, id) ==
    /\ CanBegin(p)
    /\ Respond(p, IF id \notin DOMAIN ideas THEN Response(p, "list_assets", 404, "anon", id)
                  ELSE WithBody(p, "list_assets", "anon", id,
                         SelectSeq(SelectRows(assets, {id}),
                                   LAMBDA a : a.visibility = "public")))
    /\ UNCHANGED <<store, now, nextId>>

\* GET /chat/ideas/{idea_id}/unanswered (chat/main.py:383-396)
get_unanswered(p, id, user) ==
    /\ CanBegin(p)
    /\ LET status == OwnerCheck(id, user)
       IN Respond(p, IF status # 0 THEN Response(p, "get_unanswered", status, user, id)
                     ELSE WithBody(p, "get_unanswered", user, id,
                            SelectRows(unanswered, {id})))
    /\ UNCHANGED <<store, now, nextId>>

\* GET /chat/ideas/{idea_id}/qa (chat/main.py:485-497)
list_persistent_qa(p, id, user) ==
    /\ CanBegin(p)
    /\ LET status == OwnerCheck(id, user)
       IN Respond(p, IF status # 0 THEN Response(p, "list_persistent_qa", status, user, id)
                     ELSE WithBody(p, "list_persistent_qa", user, id,
                            SelectSeq(SelectRows(repo, {id}), LAMBDA r : r.type = "qa")))
    /\ UNCHANGED <<store, now, nextId>>

\* a table with one more row / one more idea
WithIdea(id, idea) == [i \in DOMAIN ideas \cup {id} |-> IF i = id THEN idea ELSE ideas[i]]

\* what the backend does during one create_idea: it answers or it fails
Completion(answers, text) == IF answers THEN [kind |-> "ok", text |-> text] ELSE Raise

\* generate_title (ideas/main.py:85-86); the quotes stripped are not modelled
generate_title(answers) == Strip(ask_openai(client, Completion(answers, <<"T0">>)))

\* generate_clarifying_questions (ideas/main.py:170-172): the JSON list of
\* the completion, or the lines of a text that is no JSON list (a sentinel
\* is one such line)
generate_clarifying_questions(answers, n) ==
    IF client /\ answers THEN << <<"cq" \o n>> >>
    ELSE << ask_openai(client, Completion(answers, Empty)) >>

\* POST /ideas/ (ideas/main.py:177-240): the generated title and pages, the
\* password rule, the idea, its raw submission and its seeded questions
create_idea(p, user, visibility, password, answers) ==
    /\ CanBegin(p)
    /\ LET n == ToString(nextId)
           id == "i" \o n
           final_title == generate_title(answers)
           public_md == ask_openai(client, Completion(answers, <<"pub" \o n>>))
           private_md == ask_openai(client, Completion(answers, <<"priv" \o n>>))
           idea == [NewIdea(user, n, visibility, password) EXCEPT
                       !.title = final_title, !.public_md = public_md,
                       !.private_md = private_md]
           qs == generate_clarifying_questions(answers, n)
       IN IF visibility = "password" /\ ~Truthy(password)
          THEN /\ Respond(p, Response(p, "create_idea", 400, user, "-"))
               /\ UNCHANGED <<store, now, nextId>>
          ELSE /\ ideas' = WithIdea(id, idea)
               /\ repo' = Append(repo, [id |-> nextId + 1, idea_id |-> id,
                                        name |-> <<"Raw Submission">>,
                                        type |-> "raw_submission",
                                        content |-> <<"raw" \o n>>,
                                        visibility |-> "private"])
               /\ unanswered' = unanswered \o
                     [k \in 1..Len(qs) |-> [id |-> nextId + 1 + k, idea_id |-> id,
                                            question |-> qs[k], created_at |-> now]]
               /\ nextId' = nextId + 2 + Len(qs)
               /\ now' = now + 1
               /\ Respond(p, WithBody(p, "create_idea", user, id, IdeaResponse(id, idea)))
               /\ UNCHANGED <<qa_history, assets>>

\* the UpdateIdeaRequest bodies of the model: a field left out is None
Updates ==
    { [visibility |-> "public"], [visibility |-> "private"], [visibility |-> "password"],
      [visibility |-> "password", password |-> <<"pw2">>],
      [password |-> <<"pw2">>],
      [title |-> <<"T2">>, public_md |-> <<"P3">>, private_md |-> <<"R3">>],
      [clonable |-> FALSE] }

Given(body, field) == field \in DOMAIN body

\* ideas/main.py:284-295: each field given replaces the idea's
ApplyUpdate(idea, body) ==
    [idea EXCEPT
       !.title = IF Given(body, "title") THEN body.title ELSE @,
       !.public_md = IF Given(body, "public_md") THEN body.public_md ELSE @,
       !.private_md = IF Given(body, "private_md") THEN body.private_md ELSE @,
       !.visibility = IF Given(body, "visibility") THEN body.visibility ELSE @,
       !.password_hash = IF Given(body, "password") THEN hash_password(body.password) ELSE @,
       !.clonable = IF Given(body, "clonable") THEN body.clonable ELSE @]

\* PATCH /ideas/{idea_id} (ideas/main.py:271-305)
update_idea(p, id, user, body) ==
    /\ CanBegin(p)
    /\ LET status == OwnerCheck(id, user)
       IN IF status # 0
          THEN /\ Respond(p, Response(p, "update_idea", status, user, id))
               /\ UNCHANGED <<store, now, nextId>>
          ELSE /\ ideas' = [ideas EXCEPT ![id] = ApplyUpdate(@, body)]
               /\ Respond(p, WithBody(p, "update_idea", user, id,
                                      IdeaResponse(id, ApplyUpdate(ideas[id], body))))
               /\ UNCHANGED <<repo, qa_history, unanswered, assets, now, nextId>>

\* the rows of the four child tables that reference the idea
Children(id) ==
    Len(SelectRows(repo, {id})) + Len(SelectRows(qa_history, {id}))
      + Len(SelectRows(unanswered, {id})) + Len(SelectRows(assets, {id}))

\* the ideas cloned from the idea
Clones(id) == {c \in DOMAIN ideas : ideas[c].parent_id = id}

\* DELETE /ideas/{idea_id} (ideas/main.py:308-322). The relationships of
\* models.py:48,63,74,85 carry no delete cascade, so the flush first sets
\* idea_id of each child row to NULL, which the NOT NULL columns refuse: the
\* commit raises and nothing is deleted. Whether a clone's parent_id stops the
\* delete depends on the database in use (db.py:7): fk_enforced.
delete_idea(p, id, user, fk_enforced) ==
    /\ CanBegin(p)
    /\ LET status == OwnerCheck(id, user)
       IN IF status # 0
          THEN /\ Respond(p, Response(p, "delete_idea", status, user, id))
               /\ UNCHANGED <<store, now, nextId>>
          ELSE IF Children(id) > 0 \/ (fk_enforced /\ Clones(id) # {})
          THEN /\ Respond(p, Response(p, "delete_idea", 500, user, id))
               /\ UNCHANGED <<store, now, nextId>>
          ELSE /\ ideas' = [i \in DOMAIN ideas \ {id} |-> ideas[i]]
               /\ Respond(p, Response(p, "delete_idea", 200, user, id))
               /\ UNCHANGED <<repo, qa_history, unanswered, assets, now, nextId>>

\* POST /ideas/{idea_id}/clone (ideas/main.py:325-357)
clone_idea(p, id, user) ==
    /\ CanBegin(p)
    /\ IF id \notin DOMAIN ideas
       THEN /\ Respond(p, Response(p, "clone_idea", 404, user, id))
            /\ UNCHANGED <<store, now, nextId>>
       ELSE IF (ideas[id].visibility = "private" /\ ideas[id].user_id # user)
               \/ ~ideas[id].clonable
       THEN /\ Respond(p, Response(p, "clone_idea", 403, user, id))
            /\ UNCHANGED <<store, now, nextId>>
       ELSE LET n == ToString(nextId)
                clone == [user_id |-> user, title |-> <<"Clone of ">> \o ideas[id].title,
                          public_md |-> ideas[id].public_md,
                          private_md |-> ideas[id].private_md,
                          visibility |-> "private", password_hash |-> None,
                          share_hash |-> "s" \o n, clonable |-> ideas[id].clonable,
                          parent_id |-> id]
            IN /\ ideas' = WithIdea("i" \o n, clone)
               /\ nextId' = nextId + 1
               /\ Respond(p, WithBody(p, "clone_idea", user, id,
                                      IdeaResponse("i" \o n, clone)))
               /\ UNCHANGED <<repo, qa_history, unanswered, assets, now>>

\* POST /assets/ideas/{idea_id}/assets (assets/main.py:29-54)
add_asset(p, id, user, visibility) ==
    /\ CanBegin(p)
    /\ LET status == OwnerCheck(id, user)
           asset == [id |-> nextId, idea_id |-> id, title |-> "asset" \o ToString(nextId),
                     url |-> "url" \o ToString(nextId), visibility |-> visibility]
       IN IF status # 0
          THEN /\ Respond(p, Response(p, "add_asset", status, user, id))
               /\ UNCHANGED <<store, now, nextId>>
          ELSE /\ assets' = Append(assets, asset)
               /\ nextId' = nextId + 1
               /\ Respond(p, WithBody(p, "add_asset", user, id, asset))
               /\ UNCHANGED <<ideas, repo, qa_history, unanswered, now>>

\* session.query(RepoItem).get(qa_id) and the checks of chat/main.py:511-512:
\* the position of the idea's qa item with that key, 0 when there is none
QAItemAt(id, qa_id) ==
    LET at == {i \in 1..Len(repo) : /\ repo[i].id = qa_id /\ repo[i].idea_id = id
                                    /\ repo[i].type = "qa"}
    IN IF at = {} THEN 0 ELSE CHOOSE i \in at : TRUE

\* the UpdateQARequest bodies of the model
QAUpdates == { [answer |-> <<"a2">>], [visibility |-> "public"],
               [answer |-> Empty, visibility |-> "public"] }

\* PATCH /chat/ideas/{idea_id}/qa/{qa_id} (chat/main.py:500-522)
update_persistent_qa(p, id, qa_id, user, body) ==
    /\ CanBegin(p)
    /\ LET status == OwnerCheck(id, user)
           at == QAItemAt(id, qa_id)
       IN IF status # 0 \/ at = 0
          THEN /\ Respond(p, Response(p, "update_persistent_qa",
                                      IF status # 0 THEN status ELSE 404, user, id))
               /\ UNCHANGED <<store, now, nextId>>
          ELSE /\ repo' = [repo EXCEPT
                             ![at].content = IF Given(body, "answer") /\ Truthy(body.answer)
                                             THEN <<"A: ">> \o body.answer ELSE @,
                             ![at].visibility = IF Given(body, "visibility")
                                                THEN body.visibility ELSE @]
               /\ Respond(p, Response(p, "update_persistent_qa", 200, user, id))
               /\ UNCHANGED <<ideas, qa_history, unanswered, assets, now, nextId>>

\* DELETE /chat/ideas/{idea_id}/qa/{qa_id} (chat/main.py:525-543)
delete_persistent_qa(p, id, qa_id, user) ==
    /\ CanBegin(p)
    /\ LET status == OwnerCheck(id, user)
           at == QAItemAt(id, qa_id)
       IN IF status # 0 \/ at = 0
          THEN /\ Respond(p, Response(p, "delete_persistent_qa",
                                      IF status # 0 THEN status ELSE 404, user, id))
               /\ UNCHANGED <<store, now, nextId>>
          ELSE /\ repo' = SubSeq(repo, 1, at - 1) \o SubSeq(repo, at + 1, Len(repo))
               /\ Respond(p, Response(p, "delete_persistent_qa", 200, user, id))
               /\ UNCHANGED <<ideas, qa_history, unanswered, assets, now, nextId>>

\* the ideas a request can name: those stored and one that is not
IdeaIds == DOMAIN ideas \cup {"i9"}

\* the idea, share, asset and chat routes, one request at a time
NextIdeas ==
    \/ \E user \in Users, visibility \in {"public", "private", "password"},
          password \in {None, <<"pw">>}, answers \in BOOLEAN :
          create_idea("p1", user, visibility, password, answers)
    \/ \E id \in IdeaIds, user \in Users, password \in Passwords :
          get_idea("p1", id, user, password)
    \/ \E id \in IdeaIds, user \in Users, body \in Updates :
          update_idea("p1", id, user, body)
    \/ \E id \in IdeaIds, user \in Users, fk_enforced \in BOOLEAN :
          delete_idea("p1", id, user, fk_enforced)
    \/ \E id \in IdeaIds, user \in Users : clone_idea("p1", id, user)
    \/ \E share_hash \in ShareRefs, password \in Passwords :
          get_shared_idea("p1", share_hash, password)
    \/ \E id \in IdeaIds, user \in Users, visibility \in {"public", "private"} :
          add_asset("p1", id, user, visibility)
    \/ \E id \in IdeaIds : list_assets("p1", id)
    \/ \E id \in IdeaIds, user \in Users : get_unanswered("p1", id, user)
    \/ \E id \in IdeaIds, user \in Users : list_persistent_qa("p1", id, user)
    \/ \E id \in IdeaIds, qa_id \in QaRefs, user \in Users, body \in QAUpdates :
          update_persistent_qa("p1", id, qa_id, user, body)
    \/ \E id \in IdeaIds, qa_id \in QaRefs, user \in Users :
          delete_persistent_qa("p1", id, qa_id, user)
    \/ \E id \in IdeaIds, uq_id \in UqRefs, user \in Users, answer \in Answers :
          AnswerUnansweredBegin("p1", id, uq_id, user, answer)
    \/ \E outcome \in RefineOutcomes : AnswerUnansweredFinish("p1", outcome)
    \/ \E id \in IdeaIds, user \in Users, question \in Questions :
          AskIdeaBegin("p1", id, user, question)
    \/ \E outcome \in ChatOutcomes : AskIdeaFinish("p1", outcome)
    \/ \E share_hash \in ShareRefs, password \in Passwords, question \in Questions :
          AskSharedBegin("p1", share_hash, password, question)
    \/ \E outcome \in ChatOutcomes : AskSharedFinish("p1", outcome)

SpecIdeas == Init /\ [][NextIdeas]_vars

\* the eight owner-only routes, one request at a time
NextOwner ==
    \/ \E id \in IdeaIds, user \in Users, body \in Updates :
          update_idea("p1", id, user, body)
    \/ \E id \in IdeaIds, user \in Users, fk_enforced \in BOOLEAN :
          delete_idea("p1", id, user, fk_enforced)
    \/ \E id \in IdeaIds, user \in Users, visibility \in {"public", "private"} :
          add_asset("p1", id, user, visibility)
    \/ \E id \in IdeaIds, user \in Users : get_unanswered("p1", id, user)
    \/ \E id \in IdeaIds, uq_id \in UqRefs, user \in Users, answer \in Answers :
          AnswerUnansweredBegin("p1", id, uq_id, user, answer)
    \/ \E outcome \in RefineOutcomes : AnswerUnansweredFinish("p1", outcome)
    \/ \E id \in IdeaIds, user \in Users : list_persistent_qa("p1", id, user)
    \/ \E id \in IdeaIds, qa_id \in QaRefs, user \in Users, body \in QAUpdates :
          update_persistent_qa("p1", id, qa_id, user, body)
    \/ \E id \in IdeaIds, qa_id \in QaRefs, user \in Users :
          delete_persistent_qa("p1", id, qa_id, user)

SpecOwner == Init /\ [][NextOwner]_vars

\* ------------------------------------------------- chat on a long history
MaxHistory == 6

\* the ideas the stored QAHistory rows belong to, in insertion order
HistoryOwners == UNION {[1..n -> {"i1", "i2"}] : n \in 0..MaxHistory}

\* QAHistory rows left by earlier requests. A row of answer_unanswered is
\* created before its gateway call and committed after it (chat/main.py:
\* 418-421, 478), so a row may be inserted after a row created later:
\* late_commit exchanges the creation times of the first two rows.
HistoryRows(owners, late_commit) ==
    [j \in 1..Len(owners) |->
        [idea_id |-> owners[j], question |-> <<"hq" \o ToString(j)>>,
         answer |-> <<"ha" \o ToString(j)>>,
         created_at |-> IF late_commit /\ j <= 2 /\ Len(owners) >= 2 THEN 3 - j ELSE j]]

\* the state after the requests that left those rows, one request to go
InitHistory ==
    /\ client \in BOOLEAN
    /\ ideas = [i \in {"i1", "i2"} |->
                  IF i = "i1" THEN NewIdea("u1", "1", "public", None)
                  ELSE NewIdea("u2", "2", "public", None)]
    /\ repo = << [id |-> 1, idea_id |-> "i1", name |-> <<"Raw Submission">>,
                  type |-> "raw_submission", content |-> <<"raw1">>, visibility |-> "private"],
                 [id |-> 2, idea_id |-> "i2", name |-> <<"Raw Submission">>,
                  type |-> "raw_submission", content |-> <<"raw2">>, visibility |-> "private"] >>
    /\ \E owners \in HistoryOwners, late_commit \in BOOLEAN :
          qa_history = HistoryRows(owners, late_commit)
    /\ unanswered = <<>>
    /\ assets = << [id |-> 4, idea_id |-> "i1", title |-> "asset1", url |-> "url1",
                    visibility |-> "public"] >>
    /\ req = [p \in Procs |-> IdleReq]
    /\ last = NoResponse
    /\ now = MaxHistory + 1
    /\ nextId = 6
    /\ nreq = MaxRequests - 1
    /\ resolved = {}
    /\ probe = NoProbe

\* one chat request on either chat route
NextHistory ==
    \/ \E id \in IdeaRefs, user \in Users, question \in Questions :
          AskIdeaBegin("p1", id, user, question)
    \/ \E outcome \in ChatOutcomes : AskIdeaFinish("p1", outcome)
    \/ \E share_hash \in ShareRefs, password \in Passwords, question \in Questions :
          AskSharedBegin("p1", share_hash, password, question)
    \/ \E outcome \in ChatOutcomes : AskSharedFinish("p1", outcome)

SpecHistory == InitHistory /\ [][NextHistory]_vars

\* --------------------------------------------------------- pure functions
\* longest text handed to a parser, in tokens
MaxLen == 3

\* longest text between two block markers, in tokens
MaxEncl == 3

\* all texts of at most n tokens over an alphabet
TextsOver(alphabet, n) == UNION {[1..k -> alphabet] : k \in 0..n}

\* completion texts for parse_structured_answer: labels, whitespace, words
LabeledTexts == TextsOver({L_ANSWER, L_TITLE, L_PUB, L_PRIV, NL, SP, "a"}, MaxLen)

\* texts between a START and an END marker
Enclosed == TextsOver({NL, SP, "a"}, MaxEncl)

\* what the backend may do in one call
BackendOutcomes ==
    {Raise, [kind |-> "none", text |-> Empty]}
        \cup {[kind |-> "ok", text |-> c] : c \in TextsOver({NL, SP, "a"}, MaxLen)}

\* a completion with one public and one private block
BlockText(pub, priv) ==
    <<B_PUB_START>> \o pub \o <<B_PUB_END, NL, B_PRIV_START>> \o priv \o <<B_PRIV_END>>

\* ask_openai(context, question)
CallAskOpenai(outcome) ==
    /\ probe = NoProbe
    /\ probe' = [fn |-> "ask_openai", arg |-> outcome,
                 result |-> [text |-> ask_openai(client, outcome),
                             calls |-> BackendCalls(client, outcome)]]
    /\ UNCHANGED <<client, store, req, last, now, nextId, nreq, resolved>>

\* parse_structured_answer(raw)
CallParseStructured(raw) ==
    /\ probe = NoProbe
    /\ probe' = [fn |-> "parse_structured_answer", arg |-> raw,
                 result |-> parse_structured_answer(raw)]
    /\ UNCHANGED <<client, store, req, last, now, nextId, nreq, resolved>>

\* what a completion may put in one section of the labeled template:
\* nothing, one line, two lines
SectionTexts == {Empty, <<"a">>, <<"a", NL, "b">>}

\* a completion that follows the template of chat/main.py:185-197: each label
\* on a line of its own, its text on the lines after it
TemplateText(answer, title, pub, priv) ==
    <<L_ANSWER, NL>> \o answer \o <<NL, NL, L_TITLE, NL>> \o title
        \o <<NL, NL, L_PUB, NL>> \o pub \o <<NL, NL, L_PRIV, NL>> \o priv

\* parse_structured_answer(raw) for raw that follows the template
CallParseTemplate(answer, title, pub, priv) ==
    /\ probe = NoProbe
    /\ probe' = [fn |-> "parse_template",
                 arg |-> [answer |-> answer, title |-> title, pub |-> pub, priv |-> priv],
                 result |-> parse_structured_answer(TemplateText(answer, title, pub, priv))]
    /\ UNCHANGED <<client, store, req, last, now, nextId, nreq, resolved>>

\* parse_markdown_update(raw) for raw made of two blocks
CallParseMarkdown(pub, priv) ==
    /\ probe = NoProbe
    /\ probe' = [fn |-> "parse_markdown_update",
                 arg |-> [raw |-> BlockText(pub, priv), pub |-> pub, priv |-> priv],
                 result |-> parse_markdown_update(BlockText(pub, priv))]
    /\ UNCHANGED <<client, store, req, last, now, nextId, nreq, resolved>>

NextPure ==
    \/ \E outcome \in BackendOutcomes : CallAskOpenai(outcome)
    \/ \E raw \in LabeledTexts : CallParseStructured(raw)
    \/ \E pub \in Enclosed, priv \in Enclosed : CallParseMarkdown(pub, priv)
    \/ \E answer \in SectionTexts, title \in SectionTexts, pub \in SectionTexts,
          priv \in SectionTexts : CallParseTemplate(answer, title, pub, priv)

\* the gateway and the two parsers called on their own
InitPure == Init /\ ideas["i1"].visibility = "public"

SpecPure == InitPure /\ [][NextPure]_vars

\* ----------------------------------------------------------------- claims
Owner(id) == ideas[id].user_id

ChatRoutes == {"ask_idea", "ask_shared_idea"}

\* in this step the handler of slot p, blocked in route's gateway call, ends
Finishes(p, route) == req[p].pc = route /\ req'[p].pc = "idle"

\* in this step slot p passes route's checks and goes on to the gateway call
Begins(p, route) == req[p].pc = "idle" /\ req'[p].pc = route

\* the text the gateway returned carries one of the two sentinels
RawSentinel(raw) == HasTok(raw, UNAVAILABLE) \/ HasTok(raw, CHAT_ERROR)

SaysIDontKnow(answer) == \E i \in 1..Len(answer) : LowerTok(answer[i]) = "i don't know"

\* tbl' is tbl with exactly one row appended
OneRowMore(tbl, tblNext) ==
    Len(tblNext) = Len(tbl) + 1 /\ SubSeq(tblNext, 1, Len(tbl)) = tbl

\* a persistent QA item as the contexts render it
RenderedQA(item) ==
    <<"Q: ">> \o Replace(item.name, "Q: ") \o <<NL, "A: ">> \o Replace(item.content, "A: ")

\* the context holds the idea's private markdown or one of its private QA items
LeaksPrivate(context, id) ==
    \/ Truthy(ideas[id].private_md) /\ Contains(context, ideas[id].private_md)
    \/ \E i \in 1..Len(repo) :
          /\ repo[i].idea_id = id /\ repo[i].type = "qa" /\ repo[i].visibility = "private"
          /\ Contains(context, RenderedQA(repo[i]))

\* C1: no chat request by a non-owner on a private idea reaches the gateway
\* call: on either chat route it is denied first.
C1_PrivateChatDenied ==
    \A p \in Procs :
        req[p].pc \in ChatRoutes =>
            ~(ideas[req[p].idea_id].visibility = "private"
              /\ req[p].user # Owner(req[p].idea_id))

\* C2: a context handed to the gateway for a caller who is not the owner
\* holds neither the idea's private markdown nor a private QA item.
C2_NoPrivateInNonOwnerContext ==
    \A p \in Procs :
        (req[p].pc \in ChatRoutes /\ req[p].user # Owner(req[p].idea_id)) =>
            ~LeaksPrivate(req[p].context, req[p].idea_id)

\* C3 as stated: a non-owner chat request leaves the idea's documents and the
\* repo items as they were and appends a QAHistory entry and nothing else.
C3_NonOwnerOnlyHistory ==
    [][\A p \in Procs : \A route \in ChatRoutes :
          (Finishes(p, route) /\ req[p].user # Owner(req[p].idea_id)) =>
              /\ ideas' = ideas
              /\ repo' = repo
              /\ unanswered' = unanswered
              /\ OneRowMore(qa_history, qa_history')]_vars

\* C3 as amended: a non-owner chat request leaves the idea's documents and
\* the repo items as they were; it appends one QAHistory entry (the caller's
\* question, the answer returned) exactly when the completion is not a
\* sentinel, and besides it adds at most one UnansweredQuestion, holding
\* the caller's question.
C3_NonOwnerFrame ==
    [][\A p \in Procs : \A route \in ChatRoutes :
          (Finishes(p, route) /\ req[p].user # Owner(req[p].idea_id)) =>
              /\ ideas' = ideas
              /\ repo' = repo
              /\ assets' = assets
              /\ IF RawSentinel(last'.raw)
                 THEN qa_history' = qa_history
                 ELSE qa_history' = Append(qa_history,
                        [idea_id |-> req[p].idea_id, question |-> req[p].question,
                         answer |-> last'.answer, created_at |-> now])
              /\ \/ unanswered' = unanswered
                 \/ /\ OneRowMore(unanswered, unanswered')
                    /\ unanswered'[Len(unanswered')].question = req[p].question
                    /\ unanswered'[Len(unanswered')].idea_id = req[p].idea_id]_vars

\* a non-owner got a proposal for the public markdown back and the stored
\* markdown is not that proposal
C3_Witness ==
    /\ last.route \in ChatRoutes /\ last.status = 200
    /\ last.idea_id \in DOMAIN ideas
    /\ last.user # Owner(last.idea_id)
    /\ Truthy(last.updated_public_md)
    /\ ideas[last.idea_id].public_md # last.updated_public_md

C5_AtomicCommit ==
    [][\A p \in Procs :
          /\ (/\ Finishes(p, "ask_idea")
              /\ req[p].user = Owner(req[p].idea_id)
              /\ ~RawSentinel(last'.raw)) =>
                 qa_history' = Append(qa_history,
                    [idea_id |-> req[p].idea_id, question |-> req[p].question,
                     answer |-> last'.answer, created_at |-> now])
          /\ (Finishes(p, "ask_idea") /\ ideas' # ideas) =>
                 OneRowMore(qa_history, qa_history')
          /\ Begins(p, "ask_idea") => UNCHANGED store]_vars

\* the owner's proposal for the public markdown is stored and the history
\* ends with the row of that request
C5_Witness ==
    /\ last.route = "ask_idea" /\ last.status = 200
    /\ last.user = Owner(last.idea_id)
    /\ Truthy(last.updated_public_md)
    /\ ideas[last.idea_id].public_md = last.updated_public_md
    /\ qa_history # <<>>
    /\ qa_history[Len(qa_history)].answer = last.answer
    /\ qa_history[Len(qa_history)].idea_id = last.idea_id

\* C6: when ask_idea gets a sentinel back, exactly one UnansweredQuestion
\* with the caller's question is added for the idea, no QAHistory entry is
\* added, the idea is unchanged and the answer is the fixed apology.
C6_SentinelRecorded ==
    [][\A p \in Procs :
          (Finishes(p, "ask_idea") /\ RawSentinel(last'.raw)) =>
              /\ OneRowMore(unanswered, unanswered')
              /\ unanswered'[Len(unanswered')].question = req[p].question
              /\ unanswered'[Len(unanswered')].idea_id = req[p].idea_id
              /\ qa_history' = qa_history
              /\ ideas' = ideas
              /\ last'.answer = APOLOGY]_vars

\* ask_idea ended on the error sentinel and its question is the newest
\* unanswered one
C6_Witness ==
    /\ last.route = "ask_idea" /\ last.status = 200
    /\ HasTok(last.raw, CHAT_ERROR)
    /\ last.answer = APOLOGY
    /\ unanswered # <<>>
    /\ unanswered[Len(unanswered)].question \in Questions
    /\ unanswered[Len(unanswered)].idea_id = last.idea_id

\* C7: when ask_shared_idea gets a sentinel back, exactly one
\* UnansweredQuestion with the caller's question is added for the idea, no
\* QAHistory entry is added and the answer is the fixed apology.
C7_SharedSentinelRecorded ==
    [][\A p \in Procs :
          (Finishes(p, "ask_shared_idea") /\ RawSentinel(last'.raw)) =>
              /\ OneRowMore(unanswered, unanswered')
              /\ unanswered'[Len(unanswered')].question = req[p].question
              /\ unanswered'[Len(unanswered')].idea_id = req[p].idea_id
              /\ qa_history' = qa_history
              /\ last'.answer = APOLOGY]_vars

\* C8: a chat request whose completion is not a sentinel adds, besides its
\* QAHistory entry, one UnansweredQuestion with the caller's question when
\* the answer contains "i don't know" in any letter case, and none otherwise.
C8_IDontKnowRecorded ==
    [][\A p \in Procs : \A route \in ChatRoutes :
          (Finishes(p, route) /\ ~RawSentinel(last'.raw)) =>
              /\ OneRowMore(qa_history, qa_history')
              /\ IF SaysIDontKnow(last'.answer)
                 THEN /\ OneRowMore(unanswered, unanswered')
                      /\ unanswered'[Len(unanswered')].question = req[p].question
                      /\ unanswered'[Len(unanswered')].idea_id = req[p].idea_id
                 ELSE unanswered' = unanswered]_vars

\* C9: ask_shared_idea goes on to compose a context and call the gateway
\* only for an idea that is not private and, if it is password protected,
\* with a non-empty password that hashes to its password_hash; a request the
\* gate rejects writes nothing and calls nothing.
C9_GateBeforeContext ==
    [][\A p \in Procs :
          /\ Begins(p, "ask_shared_idea") =>
                LET idea == ideas[req'[p].idea_id]
                    pw == req'[p].password
                IN /\ idea.visibility # "private"
                   /\ idea.visibility = "password" =>
                         /\ pw # None /\ pw # Empty
                         /\ hash_password(pw) = idea.password_hash
          /\ (/\ last' # last
              /\ last'.route = "ask_shared_idea"
              /\ last'.status = 403) =>
                UNCHANGED <<store, req, now, nextId>>]_vars

\* a request on the share link of a password protected idea was rejected
C9_Witness ==
    /\ last.route = "ask_shared_idea" /\ last.status = 403
    /\ last.idea_id \in DOMAIN ideas
    /\ ideas[last.idea_id].visibility = "password"

\* C10: the step that ends a successful answer_unanswered removes the
\* question and adds exactly one QAHistory entry (question, supplied answer)
\* and exactly one private qa RepoItem named "Q: <question>" with content
\* "A: <answer>", whatever the secondary completion call returned; the
\* question is the text of the stored UnansweredQuestion.
C10_ResolutionAtomic ==
    [][\A p \in Procs :
          /\ Begins(p, "answer_unanswered") =>
                /\ HasUnanswered(req'[p].uq_id)
                /\ req'[p].question = GetUnanswered(req'[p].uq_id).question
                /\ UNCHANGED store
          /\ Finishes(p, "answer_unanswered") =>
                /\ \A i \in 1..Len(unanswered') : unanswered'[i].id # req[p].uq_id
                /\ OneRowMore(qa_history, qa_history')
                /\ LET h == qa_history'[Len(qa_history')]
                   IN /\ h.idea_id = req[p].idea_id
                      /\ h.question = req[p].question
                      /\ h.answer = req[p].answer
                /\ OneRowMore(repo, repo')
                /\ LET item == repo'[Len(repo')]
                   IN /\ item.idea_id = req[p].idea_id
                      /\ item.type = "qa"
                      /\ item.visibility = "private"
                      /\ item.name = <<"Q: ">> \o req[p].question
                      /\ item.content = <<"A: ">> \o req[p].answer
                /\ last'.status = 200]_vars

\* a question was resolved while the secondary completion call failed: the
\* pair is the newest repo item and the question is gone
C10_Witness ==
    /\ last.route = "answer_unanswered" /\ last.status = 200
    /\ RawSentinel(last.raw)
    /\ repo[Len(repo)].type = "qa"
    /\ repo[Len(repo)].content = <<"A: ">> \o last.answer
    /\ \A i \in 1..Len(unanswered) : unanswered[i].question # <<"cq1">>

\* in this step slot p's answer_unanswered request is turned down
Rejected(p, route) ==
    /\ nreq' # nreq /\ req' = req
    /\ last'.proc = p /\ last'.route = route

\* the caller of the last response owns the idea it named
LastByOwner(resp) ==
    resp.idea_id \in DOMAIN ideas /\ ideas[resp.idea_id].user_id = resp.user

\* the qa repo items stored
QAItems == {i \in 1..Len(repo) : repo[i].type = "qa"}

C12_ConsumedOnce == Cardinality(QAItems) <= Cardinality(resolved)

\* C13: when the completion call inside answer_unanswered yields a sentinel,
\* the idea's public_md and private_md after the resolution are what they
\* were before it.
C13_FailedRegenerationKeepsDocs ==
    [][\A p \in Procs :
          (Finishes(p, "answer_unanswered") /\ RawSentinel(last'.raw)) =>
              /\ ideas'[req[p].idea_id].public_md = ideas[req[p].idea_id].public_md
              /\ ideas'[req[p].idea_id].private_md = ideas[req[p].idea_id].private_md]_vars

\* C15: ask_openai always returns a string and raises nothing; without a
\* client it returns exactly "[Chat unavailable]" and calls no backend; when
\* the call or the reading of its response fails it returns a text that
\* begins "[Chat error: "; it calls the backend at most once.
C15_GatewayTotal ==
    probe.fn = "ask_openai" =>
        /\ probe.result.text # RAISED
        /\ probe.result.text # None
        /\ probe.result.calls <= 1
        /\ ~client => (probe.result.text = <<UNAVAILABLE>> /\ probe.result.calls = 0)
        /\ (client /\ probe.arg.kind # "ok") =>
              /\ Len(probe.result.text) >= 2
              /\ SubSeq(probe.result.text, 1, 2) = <<CHAT_ERROR, ": ">>
        /\ (client /\ probe.arg.kind = "ok") => probe.result.text = Strip(probe.arg.text)

\* the backend answered without a text and the caller got the error text
C15_Witness ==
    /\ probe.fn = "ask_openai"
    /\ client
    /\ probe.arg.kind = "none"
    /\ probe.result.text[1] = CHAT_ERROR
    /\ probe.result.calls = 1

\* C16: for a completion output (a text as ask_openai returns it, without
\* surrounding whitespace) that lacks the ANSWER: header,
\* parse_structured_answer returns the whole text as answer and None for
\* title, pub and priv.
C16_NoHeaderFallback ==
    (/\ probe.fn = "parse_structured_answer"
     /\ probe.arg = Strip(probe.arg)
     /\ ~HasTok(probe.arg, L_ANSWER)) =>
        probe.result = [answer |-> probe.arg, title |-> None, pub |-> None, priv |-> None]

\* a text with another label but no ANSWER: came back whole
C16_Witness ==
    /\ probe.fn = "parse_structured_answer"
    /\ ~HasTok(probe.arg, L_ANSWER)
    /\ HasTok(probe.arg, L_PRIV)
    /\ probe.arg # <<L_PRIV>>
    /\ probe.result.answer = probe.arg
    /\ probe.result.priv = None

\* the markers of a block stand on lines of their own
OwnLines(enclosed) ==
    enclosed # <<>> /\ Head(enclosed) = NL /\ enclosed[Len(enclosed)] = NL

\* C17: for a completion output with one balanced public and one balanced
\* private block, each marker on a line of its own, parse_markdown_update
\* returns as public_md the trimmed text the public block encloses and as
\* private_md the trimmed text the private block encloses, also when that
\* text is empty.
C17_BlocksReturned ==
    (/\ probe.fn = "parse_markdown_update"
     /\ OwnLines(probe.arg.pub)
     /\ OwnLines(probe.arg.priv)) =>
        /\ probe.result.public_md = Strip(probe.arg.pub)
        /\ probe.result.private_md = Strip(probe.arg.priv)

\* C14: after any sequence of create_idea, update_idea and clone_idea, an
\* idea has a password hash exactly when its visibility is "password"
C14_HashIffPasswordVisibility ==
    \A id \in DOMAIN ideas :
       (ideas[id].password_hash # None) <=> (ideas[id].visibility = "password")

\* the routes that return an idea's title, pages or assets
ContentRoutes == {"get_idea", "get_shared_idea", "clone_idea", "list_assets"}

\* C18: a content request on a private idea by anyone but its owner is
\* denied (403) and its response carries none of the idea's title, pages or
\* assets
C18_PrivateIdeaDenied ==
    [][(/\ nreq' # nreq
        /\ last'.route \in ContentRoutes
        /\ last'.idea_id \in DOMAIN ideas
        /\ ideas[last'.idea_id].visibility = "private"
        /\ ideas[last'.idea_id].user_id # last'.user) =>
           /\ last'.status = 403
           /\ last'.body = <<>>]_vars

\* every RepoItem, QAHistory, UnansweredQuestion and Asset row references
\* an idea that exists
NoOrphans ==
    /\ \A i \in 1..Len(repo) : repo[i].idea_id \in DOMAIN ideas
    /\ \A i \in 1..Len(qa_history) : qa_history[i].idea_id \in DOMAIN ideas
    /\ \A i \in 1..Len(unanswered) : unanswered[i].idea_id \in DOMAIN ideas
    /\ \A i \in 1..Len(assets) : assets[i].idea_id \in DOMAIN ideas

\* C19: child rows always reference an existing idea: delete_idea by the
\* owner succeeds also when the idea has child rows, and afterwards neither
\* the idea nor any of its child rows is left
C19_DeleteLeavesNoChildren ==
    [][/\ NoOrphans'
       /\ (/\ nreq' # nreq
           /\ last'.route = "delete_idea"
           /\ last'.idea_id \in DOMAIN ideas
           /\ ideas[last'.idea_id].user_id = last'.user) =>
              /\ last'.status = 200
              /\ last'.idea_id \notin DOMAIN ideas'
              /\ \A i \in 1..Len(repo') : repo'[i].idea_id # last'.idea_id
              /\ \A i \in 1..Len(qa_history') : qa_history'[i].idea_id # last'.idea_id
              /\ \A i \in 1..Len(unanswered') : unanswered'[i].idea_id # last'.idea_id
              /\ \A i \in 1..Len(assets') : assets'[i].idea_id # last'.idea_id]_vars

\* the routes reserved to the idea's owner
OwnerRoutes ==
    {"update_idea", "delete_idea", "add_asset", "get_unanswered", "answer_unanswered",
     "list_persistent_qa", "update_persistent_qa", "delete_persistent_qa"}

\* in this step a request ends with its response: a handler that runs in one
\* step, or one that returns from its gateway call
Answered ==
    \/ nreq' # nreq /\ req' = req
    \/ \E p \in Procs : req[p].pc # "idle" /\ req'[p].pc = "idle"

\* C20: an owner-only request on an existing idea by a user who is not its
\* owner is answered 403 with an empty body and changes no table; it never
\* reaches a gateway call: answer_unanswered goes on to its gateway call for
\* the owner only
C20_NonOwnerDenied ==
    [][/\ (/\ Answered
           /\ last'.route \in OwnerRoutes
           /\ last'.idea_id \in DOMAIN ideas
           /\ ideas[last'.idea_id].user_id # last'.user) =>
              /\ last'.status = 403
              /\ last'.body = <<>>
              /\ req' = req
              /\ UNCHANGED store
       /\ \A p \in Procs :
             Begins(p, "answer_unanswered") =>
                /\ req'[p].idea_id \in DOMAIN ideas
                /\ ideas[req'[p].idea_id].user_id = req'[p].user]_vars

\* a user who does not own the idea was refused the deletion of one of its
\* qa items, and the item is still there
C20_Witness ==
    /\ last.route = "delete_persistent_qa"
    /\ last.status = 403
    /\ last.idea_id \in DOMAIN ideas
    /\ ideas[last.idea_id].user_id # last.user
    /\ \E i \in QAItems : repo[i].idea_id = last.idea_id

\* (text or "").strip() or None of a section's text
SectionOrNone(text) == IF Strip(text) = Empty THEN None ELSE Strip(text)

\* C21: for a completion that follows the labeled template,
\* parse_structured_answer returns for each field the trimmed text between
\* its label and the next label, and None for a section left empty
C21_TemplateSections ==
    probe.fn = "parse_template" =>
        /\ probe.result.answer = Strip(probe.arg.answer)
        /\ probe.result.title = SectionOrNone(probe.arg.title)
        /\ probe.result.pub = SectionOrNone(probe.arg.pub)
        /\ probe.result.priv = SectionOrNone(probe.arg.priv)

\* the lines of a context between the line of a section header and the
\* blank line before the PUBLIC ASSETS header
SectionOf(context, header) ==
    LET from == CHOOSE i \in 1..Len(context) : context[i] = header
        to == CHOOSE i \in 1..Len(context) : context[i] = "# PUBLIC ASSETS"
    IN SubSeq(context, from + 2, to - 3)

\* the positions of the k most recently created QAHistory rows of the idea
MostRecent(id, k) ==
    LET mine == {i \in 1..Len(qa_history) : qa_history[i].idea_id = id}
    IN {i \in mine :
          Cardinality({j \in mine :
             qa_history[j].created_at > qa_history[i].created_at}) < k}

\* Q/A line pairs of the rows at those positions, the oldest first
RECURSIVE QALines(_)
QALines(at) ==
    IF at = {} THEN Empty
    ELSE LET i == CHOOSE i \in at :
                     \A j \in at : qa_history[i].created_at <= qa_history[j].created_at
         IN <<"Q: ">> \o qa_history[i].question \o <<NL, "A: ">> \o qa_history[i].answer
              \o (IF at = {i} THEN Empty ELSE <<NL>> \o QALines(at \ {i}))

\* C22: the recent-history section of a chat context is exactly the Q/A line
\* pairs of the most recently created QAHistory rows of the idea asked about,
\* at most 5 on ask_idea and at most 3 on ask_shared_idea, oldest first, and
\* no row of another idea
C22_RecentHistoryWindow ==
    [][\A p \in Procs :
          /\ Begins(p, "ask_idea") =>
                /\ SectionOf(req'[p].context, "# RECENT Q&A HISTORY")
                      = QALines(MostRecent(req'[p].idea_id, 5))
                /\ Cardinality(MostRecent(req'[p].idea_id, 5)) <= 5
          /\ Begins(p, "ask_shared_idea") =>
                /\ SectionOf(req'[p].context, "# RECENT PUBLIC Q&A (short)")
                      = QALines(MostRecent(req'[p].idea_id, 3))
                /\ Cardinality(MostRecent(req'[p].idea_id, 3)) <= 3]_vars

\* a shared chat composed its context for an idea with more than three
\* rows, next to rows of another idea, the oldest row committed late
C22_Witness ==
    /\ req["p1"].pc = "ask_shared_idea"
    /\ Cardinality({i \in 1..Len(qa_history) :
                      qa_history[i].idea_id = req["p1"].idea_id}) > 3
    /\ \E i \in 1..Len(qa_history) : qa_history[i].idea_id # req["p1"].idea_id
    /\ Len(qa_history) >= 2 /\ qa_history[1].created_at > qa_history[2].created_at
    /\ qa_history[1].idea_id = req["p1"].idea_id

\* the response before this step is that of another owner ask_idea on the
\* same idea, which committed while the request of slot p was in flight
CommittedDuring(p) ==
    /\ last.route = "ask_idea" /\ last.status = 200
    /\ last.proc # p
    /\ last.idea_id = req[p].idea_id
    /\ last.user = req[p].user
    /\ ~RawSentinel(last.raw)

\* C23: when two owner ask_idea requests on one idea overlap and both
\* propose a non-empty value for a field, the field holds the proposal of
\* the request that commits last; both QAHistory rows are stored; and a
\* commit leaves in each field what was stored or what it proposed
C23_LastWriterWins ==
    [][\A p \in Procs :
          (/\ Finishes(p, "ask_idea")
           /\ req[p].user = Owner(req[p].idea_id)
           /\ ~RawSentinel(last'.raw)
           /\ CommittedDuring(p)) =>
              LET old == ideas[req[p].idea_id]
                  new == ideas'[req[p].idea_id]
              IN /\ (Truthy(last.updated_title) /\ Truthy(last'.updated_title)) =>
                       new.title = Strip(last'.updated_title)
                 /\ (Truthy(last.updated_public_md) /\ Truthy(last'.updated_public_md)) =>
                       new.public_md = last'.updated_public_md
                 /\ (Truthy(last.updated_private_md) /\ Truthy(last'.updated_private_md)) =>
                       new.private_md = last'.updated_private_md
                 /\ \E i, j \in 1..Len(qa_history') :
                       /\ i < j
                       /\ qa_history'[i].idea_id = req[p].idea_id
                       /\ qa_history'[i].answer = last.answer
                       /\ qa_history'[j].idea_id = req[p].idea_id
                       /\ qa_history'[j].answer = last'.answer
                 /\ new.title \in {old.title, Strip(last'.updated_title)}
                 /\ new.public_md \in {old.public_md, last'.updated_public_md}
                 /\ new.private_md \in {old.private_md, last'.updated_private_md}]_vars

\* C24: a question/answer pair the owner supplied through answer_unanswered,
\* stored as a qa RepoItem that is still private, appears in no context
\* composed by a later ask_shared_idea on that idea, neither in its
\* persistent-QA section nor in its recent-history section
C24_ResolvedPairNotShared ==
    [][\A p \in Procs :
          Begins(p, "ask_shared_idea") =>
             \A i \in QAItems :
                (repo[i].idea_id = req'[p].idea_id /\ repo[i].visibility = "private") =>
                   ~Contains(req'[p].context, RenderedQA(repo[i]))]_vars

\* the request carried no password that matches the idea's hash
NoMatchingPassword(idea, password) ==
    ~Truthy(password) \/ ~check_password(password, idea.password_hash)

\* the text holds one of the idea's two pages
HoldsMarkdown(text, idea) ==
    \/ Truthy(idea.public_md) /\ Contains(text, idea.public_md)
    \/ Truthy(idea.private_md) /\ Contains(text, idea.private_md)

\* C25: for a password-protected idea, a caller who is not its owner and
\* gave no matching password gets its pages through no route: get_idea,
\* get_shared_idea and clone_idea answer 403 with an empty body and copy
\* nothing, and ask_idea and ask_shared_idea compose no context that holds
\* a page
C25_PasswordGate ==
    [][/\ (/\ nreq' # nreq /\ req' = req
           /\ last'.route \in {"get_idea", "get_shared_idea", "clone_idea"}
           /\ last'.idea_id \in DOMAIN ideas
           /\ ideas[last'.idea_id].visibility = "password"
           /\ ideas[last'.idea_id].user_id # last'.user
           /\ NoMatchingPassword(ideas[last'.idea_id], last'.password)) =>
              /\ last'.status = 403
              /\ last'.body = <<>>
              /\ ideas' = ideas
       /\ \A p \in Procs : \A route \in ChatRoutes :
             (/\ Begins(p, route)
              /\ ideas[req'[p].idea_id].visibility = "password"
              /\ ideas[req'[p].idea_id].user_id # req'[p].user
              /\ NoMatchingPassword(ideas[req'[p].idea_id], req'[p].password)) =>
                 ~HoldsMarkdown(req'[p].context, ideas[req'[p].idea_id])]_vars

============================================================================
